---- MODULE Spec2Model ----
(***************************************************************************)
(* A model of src/mcp_server.py: the pruned directory walk                 *)
(* find_consolehost_files, the orchestrator extract_from_image, the        *)
(* ordered decode loop, the line parser and get_username_from_path.        *)
(*                                                                         *)
(* Strings are sequences of tokens.  A token is the separator "/" or an    *)
(* indivisible word such as "Users" or "AppData"; lower() acts token by    *)
(* token, and a substring test is a test for a contiguous subsequence.     *)
(* Byte strings are sequences of integers 0..255, decoded text is a        *)
(* sequence of code points.                                                *)
(***************************************************************************)
EXTENDS Integers, Sequences, FiniteSets, TLC

VARIABLES
    \* ---- find_consolehost_files (one walk over one filesystem) ----
    fsVariant,      \* which directory tree the filesystem handle fs holds
    failDirs,       \* paths whose fs.open_dir raises
    failEntries,    \* full paths of entries whose inspection raises
    wpc,            \* "idle" | "call" | "iter" | "done"
    callPath,       \* the path argument of the pending call
    stack,          \* the active calls: [path, todo], innermost last
    results,        \* the shared results list
    opened,         \* the paths whose directory was opened so far
    \* ---- extract_from_image ----
    rpc,            \* position in extract_from_image
    partitions,     \* <<>> for None, or <<the list of partitions>>
    partition,      \* the partition argument: <<>> for None, or <<index>>
    partIdx,        \* position of the for loop over partitions (1-based)
    all_results,
    extracted_files,
    idx,            \* the enumerate index i of the extraction loop
    ret,            \* <<>> while running, then <<the dict returned>> or <<the exception>>
    searchLog,      \* what each filesystem open and search returned
    readLog,        \* what extract_file_content returned for each match
    written,        \* the output files written: [name, data]
    \* ---- the pure functions, applied to drawn inputs ----
    content_bytes,
    decoded,        \* [encoding, content] of the decode loop
    text,
    commands,
    file_path,
    username,
    ppc             \* "ready" until the function was applied, then "done"

walkVars == <<fsVariant, failDirs, failEntries, wpc, callPath, stack, results, opened>>
runVars  == <<rpc, partitions, partition, partIdx, all_results, extracted_files,
              idx, ret, searchLog, readLog, written>>
pureVars == <<content_bytes, decoded, text, commands, file_path, username, ppc>>
vars     == <<walkVars, runVars, pureVars>>

None == "None"

(***************************************************************************)
(* Bounds of the model.                                                    *)
(***************************************************************************)
MaxFail == 2        \* failing directories plus failing entries in one tree
MaxParts == 2       \* partitions of an image
MaxBytes == 3       \* length of a drawn byte string
MaxTextLen == 4     \* length of a drawn text
MaxPathLen == 5     \* tokens of a drawn path

(***************************************************************************)
(* Strings.                                                                *)
(***************************************************************************)
\* str.lower() on one token
LowerTok(t) ==
    CASE t = "Users" -> "users"
      [] t = "USERS" -> "users"
      [] t = "Documents and Settings" -> "documents and settings"
      [] t = "DOCUMENTS AND SETTINGS" -> "documents and settings"
      [] t = "AppData" -> "appdata"
      [] t = "APPDATA" -> "appdata"
      [] t = "Roaming" -> "roaming"
      [] t = "ROAMING" -> "roaming"
      [] t = "Microsoft" -> "microsoft"
      [] t = "MICROSOFT" -> "microsoft"
      [] t = "Windows" -> "windows"
      [] t = "WINDOWS" -> "windows"
      [] t = "PowerShell" -> "powershell"
      [] t = "POWERSHELL" -> "powershell"
      [] t = "PSReadLine" -> "psreadline"
      [] t = "PSREADLINE" -> "psreadline"
      [] t = "ConsoleHost_history.txt" -> "consolehost_history.txt"
      [] t = "CONSOLEHOST_HISTORY.TXT" -> "consolehost_history.txt"
      [] t = "ALICE" -> "alice"
      [] t = "Desktop" -> "desktop"
      [] t = "Other" -> "other"
      [] OTHER -> t

\* str.lower()
Lower(s) == [i \in DOMAIN s |-> LowerTok(s[i])]

\* sub in s
Contains(s, sub) ==
    \E i \in 0..(Len(s) - Len(sub)) : SubSeq(s, i + 1, i + Len(sub)) = sub

Root == <<"/">>

target_filename == <<"consolehost_history.txt">>

target_path_parts ==
    << <<"appdata">>, <<"roaming">>, <<"microsoft">>, <<"windows">>,
       <<"powershell">>, <<"psreadline">> >>

anchor_names == { <<"users">>, <<"documents and settings">> }

anchor_paths == { <<"/", "users">>, <<"/", "documents and settings">> }

Range(s) == {s[i] : i \in DOMAIN s}

\* full_path = f"{path}/{name}" if path != "/" else f"/{name}"
FullPath(path, name) ==
    IF path # Root THEN path \o <<"/">> \o name ELSE <<"/">> \o name

(***************************************************************************)
(* The directory trees a filesystem handle may hold.  A node is one        *)
(* directory entry: the path of the directory listing it, its name, the    *)
(* type of its metadata ("dir", "reg", "lnk", or "nometa" when             *)
(* entry.info.meta is None) and, for a file, its data stream.              *)
(***************************************************************************)
RECURSIVE PathOf(_)
PathOf(names) ==
    IF names = <<>> THEN Root
    ELSE FullPath(PathOf(SubSeq(names, 1, Len(names) - 1)), names[Len(names)])

Node(dirNames, name, kind, data) ==
    [parent |-> PathOf(dirNames), name |-> name, kind |-> kind, content |-> data]

Dir(dirNames, name) == Node(dirNames, name, "dir", <<>>)

\* the directories names[1], names[1]/names[2], ... as nodes
Chain(names) ==
    [k \in 1..Len(names) |-> Dir(SubSeq(names, 1, k - 1), names[k])]

GoldenDirs(v) ==
    CASE v = 1 -> << <<"Users">>, <<"alice">>, <<"AppData">>, <<"Roaming">>,
                     <<"Microsoft">>, <<"Windows">>, <<"PowerShell">>, <<"PSReadLine">> >>
      [] v = 2 -> << <<"DOCUMENTS AND SETTINGS">>, <<"ALICE">>, <<"APPDATA">>, <<"ROAMING">>,
                     <<"MICROSOFT">>, <<"WINDOWS">>, <<"POWERSHELL">>, <<"PSREADLINE">> >>
      [] v = 3 -> << <<"users">>, <<"bob">>, <<"appdata">>, <<"roaming">>,
                     <<"microsoft">>, <<"windows">>, <<"powershell">>, <<"psreadline">> >>
      [] OTHER -> <<>>

GoldenName(v) ==
    CASE v = 1 -> <<"ConsoleHost_history.txt">>
      [] v = 2 -> <<"CONSOLEHOST_HISTORY.TXT">>
      [] OTHER -> <<"consolehost_history.txt">>

\* "a", LF, LF, "a": two commands around an empty line
GoldenData(v) ==
    CASE v = 1 -> <<97, 10, 10, 97>>
      [] v = 2 -> <<255>>
      [] OTHER -> <<176, 161>>

GoldenFile(v) == Node(GoldenDirs(v), GoldenName(v), "reg", GoldenData(v))

Eve == << <<"Users">>, <<"eve">>, <<"AppData">>,
          <<"Roaming", "Microsoft", "Windows", "PowerShell", "PSReadLine">> >>

Extras ==
    << Node(<<>>, <<"Documents and Settings">>, "lnk", <<>>),
       Dir(<<>>, <<"Other">>),
       Node(<< <<"Other">> >>, <<"ConsoleHost_history.txt">>, "reg", <<97>>),
       Dir(<<>>, <<"Windows">>),
       Dir(<< <<"Windows">> >>, <<"PowerShell">>),
       Node(<< <<"Windows">>, <<"PowerShell">> >>, <<"ConsoleHost_history.txt">>, "reg", <<97>>),
       Node(<< <<"Users">> >>, <<".">>, "dir", <<>>),
       Node(<< <<"Users">> >>, <<"..">>, "dir", <<>>),
       Node(<< <<"Users">> >>, <<"consolehost_history.txt">>, "reg", <<97>>),
       Dir(<< <<"Users">>, <<"alice">> >>, <<"Desktop">>),
       Node(<< <<"Users">>, <<"alice">>, <<"Desktop">> >>, <<"ConsoleHost_history.txt">>, "reg", <<97>>),
       Dir(<< <<"Users">> >>, <<"eve">>),
       Dir(<< <<"Users">>, <<"eve">> >>, <<"AppData">>),
       Dir(SubSeq(Eve, 1, 3), Eve[4]),
       Node(Eve, <<"ConsoleHost_history.txt">>, "reg", <<>>) >>

Variants == 1..4

\* the entries of the tree, in the order the directories list them
Tree(v) ==
    CASE v = 1 -> Extras \o Chain(GoldenDirs(1)) \o <<GoldenFile(1)>>
      [] v = 2 -> <<Node(<<>>, <<"$Orphan">>, "nometa", <<>>)>>
                  \o Chain(GoldenDirs(2)) \o <<GoldenFile(2)>>
      [] v = 3 -> Chain(GoldenDirs(3)) \o <<GoldenFile(3)>>
      [] OTHER -> <<Dir(<<>>, <<"Other">>),
                    Node(<< <<"Other">> >>, <<"consolehost_history.txt">>, "reg", <<97>>)>>

NodePath(n) == FullPath(n.parent, n.name)

GoldenPathOf(v) == NodePath(GoldenFile(v))

DirPaths(v) ==
    {Root} \cup {NodePath(n) : n \in {m \in Range(Tree(v)) : m.kind = "dir"}}

EntryPaths(v) == {NodePath(n) : n \in Range(Tree(v))}

\* the iterator fs.open_dir(path) gives
Listing(v, path) == SelectSeq(Tree(v), LAMBDA n : n.parent = path)

(***************************************************************************)
(* find_consolehost_files.                                                 *)
(***************************************************************************)
\* the test of lines 207-209 on a regular file
IsTarget(name, full_path) ==
    /\ Lower(name) = target_filename
    /\ \A k \in DOMAIN target_path_parts :
          Contains(Lower(full_path), target_path_parts[k])

NoPruning(path, name) == TRUE

NoAnchorChildren(path, name) ==
    \/ Lower(name) \in anchor_names
    \/ Lower(name) \in Range(target_path_parts)
    \/ Contains(Lower(FullPath(path, name)), <<"appdata">>)

\* the pruning policy of lines 217-223
ShouldDescend(path, name) ==
    \/ Lower(name) \in anchor_names
    \/ Lower(name) \in Range(target_path_parts)
    \/ Contains(Lower(FullPath(path, name)), <<"appdata">>)
    \/ Lower(path) \in anchor_paths

BreakOnError(todo) == <<>>

\* except Exception: continue (lines 224-225): the loop goes on with the
\* entries after the failing one
AfterEntryError(todo) == Tail(todo)

Top == stack[Len(stack)]

SetTodo(todo) == [stack EXCEPT ![Len(stack)].todo = todo]

\* find_consolehost_files(fs, path, results): fs.open_dir(path) raises
OpenDirFails ==
    /\ wpc = "call"
    /\ callPath \in failDirs
    /\ wpc' = IF stack = <<>> THEN "done" ELSE "iter"
    /\ UNCHANGED <<fsVariant, failDirs, failEntries, callPath, stack, results, opened>>
    /\ UNCHANGED <<runVars, pureVars>>

\* fs.open_dir(path) gives the directory
OpenDir ==
    /\ wpc = "call"
    /\ callPath \notin failDirs
    /\ stack' = Append(stack, [path |-> callPath, todo |-> Listing(fsVariant, callPath)])
    /\ opened' = opened \cup {callPath}
    /\ wpc' = "iter"
    /\ UNCHANGED <<fsVariant, failDirs, failEntries, callPath, results>>
    /\ UNCHANGED <<runVars, pureVars>>

\* one iteration of the for loop: inspecting the entry raises
EntryRaises ==
    /\ wpc = "iter" /\ stack # <<>> /\ Top.todo # <<>>
    /\ NodePath(Head(Top.todo)) \in failEntries
    /\ stack' = SetTodo(AfterEntryError(Top.todo))
    /\ UNCHANGED <<fsVariant, failDirs, failEntries, wpc, callPath, results, opened>>
    /\ UNCHANGED <<runVars, pureVars>>

\* name in ['.', '..']
EntryDot ==
    /\ wpc = "iter" /\ stack # <<>> /\ Top.todo # <<>>
    /\ LET e == Head(Top.todo) IN
         /\ NodePath(e) \notin failEntries
         /\ e.name \in {<<".">>, <<"..">>}
    /\ stack' = SetTodo(Tail(Top.todo))
    /\ UNCHANGED <<fsVariant, failDirs, failEntries, wpc, callPath, results, opened>>
    /\ UNCHANGED <<runVars, pureVars>>

\* a regular file: recorded when it is the target
EntryRegular ==
    /\ wpc = "iter" /\ stack # <<>> /\ Top.todo # <<>>
    /\ LET e == Head(Top.todo)
           full_path == FullPath(Top.path, e.name) IN
         /\ NodePath(e) \notin failEntries
         /\ e.name \notin {<<".">>, <<"..">>}
         /\ e.kind = "reg"
         /\ results' = IF IsTarget(e.name, full_path)
                       THEN Append(results, [path |-> full_path,
                                             size |-> Len(e.content),
                                             entry |-> e])
                       ELSE results
    /\ stack' = SetTodo(Tail(Top.todo))
    /\ UNCHANGED <<fsVariant, failDirs, failEntries, wpc, callPath, opened>>
    /\ UNCHANGED <<runVars, pureVars>>

\* a directory: the recursive call, or nothing
EntryDirectory ==
    /\ wpc = "iter" /\ stack # <<>> /\ Top.todo # <<>>
    /\ LET e == Head(Top.todo) IN
         /\ NodePath(e) \notin failEntries
         /\ e.name \notin {<<".">>, <<"..">>}
         /\ e.kind = "dir"
         /\ IF ShouldDescend(Top.path, e.name)
            THEN /\ wpc' = "call"
                 /\ callPath' = FullPath(Top.path, e.name)
            ELSE UNCHANGED <<wpc, callPath>>
    /\ stack' = SetTodo(Tail(Top.todo))
    /\ UNCHANGED <<fsVariant, failDirs, failEntries, results, opened>>
    /\ UNCHANGED <<runVars, pureVars>>

\* no metadata, or a type that is neither a regular file nor a directory
EntryOther ==
    /\ wpc = "iter" /\ stack # <<>> /\ Top.todo # <<>>
    /\ LET e == Head(Top.todo) IN
         /\ NodePath(e) \notin failEntries
         /\ e.name \notin {<<".">>, <<"..">>}
         /\ e.kind \notin {"reg", "dir"}
    /\ stack' = SetTodo(Tail(Top.todo))
    /\ UNCHANGED <<fsVariant, failDirs, failEntries, wpc, callPath, results, opened>>
    /\ UNCHANGED <<runVars, pureVars>>

\* the for loop is over: return results
ReturnResults ==
    /\ wpc = "iter" /\ stack # <<>> /\ Top.todo = <<>>
    /\ stack' = SubSeq(stack, 1, Len(stack) - 1)
    /\ wpc' = IF Len(stack) = 1 THEN "done" ELSE "iter"
    /\ UNCHANGED <<fsVariant, failDirs, failEntries, callPath, results, opened>>
    /\ UNCHANGED <<runVars, pureVars>>

RunIdle ==
    /\ rpc = "idle" /\ partitions = <<>> /\ partition = <<>> /\ partIdx = 0
    /\ all_results = <<>> /\ extracted_files = <<>> /\ idx = 0 /\ ret = <<>>
    /\ searchLog = <<>> /\ readLog = <<>> /\ written = <<>>

NotDecoded == [encoding |-> None, content |-> <<>>]

PureIdle ==
    /\ content_bytes = <<>> /\ decoded = NotDecoded /\ text = <<>> /\ commands = <<>>
    /\ file_path = <<>> /\ username = <<>> /\ ppc = "idle"

WalkIdle ==
    /\ fsVariant = 0 /\ failDirs = {} /\ failEntries = {}
    /\ wpc = "idle" /\ callPath = Root /\ stack = <<>> /\ results = <<>> /\ opened = {}

RECURSIVE SubsetsUpTo(_, _)
SubsetsUpTo(S, k) ==
    IF k = 0 THEN {{}}
    ELSE LET prev == SubsetsUpTo(S, k - 1) IN
         prev \cup {T \cup {x} : T \in prev, x \in S}

\* what may fail in a tree: opening a directory, inspecting an entry
FailurePoints(v) ==
    {[what |-> "open_dir", path |-> p] : p \in DirPaths(v)}
    \cup {[what |-> "entry", path |-> p] : p \in EntryPaths(v)}

FailedPaths(F, what) == {f.path : f \in {g \in F : g.what = what}}

\* find_consolehost_files(fs) on one filesystem: path = "/", results = []
InitWalk ==
    /\ fsVariant \in Variants
    /\ \E F \in SubsetsUpTo(FailurePoints(fsVariant), MaxFail) :
          /\ failDirs = FailedPaths(F, "open_dir")
          /\ failEntries = FailedPaths(F, "entry")
    /\ wpc = "call" /\ callPath = Root /\ stack = <<>> /\ results = <<>> /\ opened = {}
    /\ RunIdle
    /\ PureIdle

NextWalk ==
    \/ OpenDirFails
    \/ OpenDir
    \/ EntryRaises
    \/ EntryDot
    \/ EntryRegular
    \/ EntryDirectory
    \/ EntryOther
    \/ ReturnResults

SpecWalk == InitWalk /\ [][NextWalk]_vars

(***************************************************************************)
(* The codecs of bytes.decode, on the bytes of ByteAlphabet.  A decoder    *)
(* gives [ok, text]: ok is FALSE where the codec raises UnicodeDecodeError.*)
(***************************************************************************)
\* "A", a UTF-8 continuation byte that no Korean codec accepts, the bytes of
\* KS X 1001 rows 1 (symbols), 0xB0..0xC8 (hangul) and 0xEF (hanja), the
\* three bytes of the UTF-8 byte order mark, and 0xFF
ByteAlphabet == {65, 128, 161, 176, 187, 191, 195, 239, 255}

BoundedSeq(S, n) == UNION {[1..k -> S] : k \in 0..n}

Bad == [ok |-> FALSE, text |-> <<>>]

IsCont(b) == b \in 128..191

\* the length of the UTF-8 sequence b starts with, 0 when it is ill-formed
Utf8SeqLen(b) ==
    LET n == Len(b)
        b1 == b[1]
        c(i) == n >= i /\ IsCont(b[i])
    IN  CASE b1 < 128 -> 1
          [] b1 \in 194..223 /\ c(2) -> 2
          [] b1 = 224 /\ n >= 2 /\ b[2] \in 160..191 /\ c(3) -> 3
          [] b1 \in (225..236) \cup (238..239) /\ c(2) /\ c(3) -> 3
          [] b1 = 237 /\ n >= 2 /\ b[2] \in 128..159 /\ c(3) -> 3
          [] b1 = 240 /\ n >= 2 /\ b[2] \in 144..191 /\ c(3) /\ c(4) -> 4
          [] b1 \in 241..243 /\ c(2) /\ c(3) /\ c(4) -> 4
          [] b1 = 244 /\ n >= 2 /\ b[2] \in 128..143 /\ c(3) /\ c(4) -> 4
          [] OTHER -> 0

Utf8CodePoint(b, n) ==
    CASE n = 1 -> b[1]
      [] n = 2 -> (b[1] - 192) * 64 + (b[2] - 128)
      [] n = 3 -> (b[1] - 224) * 4096 + (b[2] - 128) * 64 + (b[3] - 128)
      [] OTHER -> (b[1] - 240) * 262144 + (b[2] - 128) * 4096
                  + (b[3] - 128) * 64 + (b[4] - 128)

RECURSIVE Utf8(_)
Utf8(b) ==
    IF b = <<>> THEN [ok |-> TRUE, text |-> <<>>]
    ELSE LET n == Utf8SeqLen(b) IN
         IF n = 0 THEN Bad
         ELSE LET rest == Utf8(SubSeq(b, n + 1, Len(b))) IN
              IF rest.ok
              THEN [ok |-> TRUE, text |-> <<Utf8CodePoint(b, n)>> \o rest.text]
              ELSE Bad

BOM_UTF8 == <<239, 187, 191>>

\* utf_8_sig: a leading byte order mark is dropped, the rest is UTF-8
Utf8Sig(b) ==
    IF Len(b) >= 3 /\ SubSeq(b, 1, 3) = BOM_UTF8
    THEN Utf8(SubSeq(b, 4, Len(b)))
    ELSE Utf8(b)

\* the assigned cells of KS X 1001 in the rows ByteAlphabet reaches: row 1,
\* the hangul rows and the hanja rows are assigned in full
Ksx1001(lead, trail) ==
    /\ trail \in 161..254
    /\ lead \in {161} \cup (176..200) \cup (202..253)

\* the extension of cp949 (Unified Hangul Code) outside KS X 1001
Cp949Ext(lead, trail) ==
    LET low == (65..90) \cup (97..122) IN
    \/ lead \in 129..160 /\ trail \in low \cup (129..254)
    \/ lead \in 161..197 /\ trail \in low \cup (129..160)
    \/ lead = 198 /\ trail \in 65..82

\* the code point a Korean double-byte pair decodes to: U+3000 (ideographic
\* space) for 0xA1A1, and for the other pairs a stand-in for the table's
\* entry, one per pair, that is neither white space nor a line boundary
KsCodePoint(lead, trail) ==
    IF lead = 161 /\ trail = 161 THEN 12288 ELSE 100000 + lead * 256 + trail

RECURSIVE Dbcs(_, _)
Dbcs(b, codec) ==
    IF b = <<>> THEN [ok |-> TRUE, text |-> <<>>]
    ELSE IF b[1] < 128
    THEN LET rest == Dbcs(Tail(b), codec) IN
         IF rest.ok THEN [ok |-> TRUE, text |-> <<b[1]>> \o rest.text] ELSE Bad
    ELSE IF Len(b) < 2 THEN Bad
    ELSE IF \/ Ksx1001(b[1], b[2])
            \/ codec = "cp949" /\ Cp949Ext(b[1], b[2])
    THEN LET rest == Dbcs(SubSeq(b, 3, Len(b)), codec) IN
         IF rest.ok
         THEN [ok |-> TRUE, text |-> <<KsCodePoint(b[1], b[2])>> \o rest.text]
         ELSE Bad
    ELSE Bad

\* latin-1: every byte is its code point
Latin1(b) == [ok |-> TRUE, text |-> b]

\* content_bytes.decode(encoding)
Codec(encoding, b) ==
    CASE encoding = "utf-8" -> Utf8(b)
      [] encoding = "utf-8-sig" -> Utf8Sig(b)
      [] encoding = "cp949" -> Dbcs(b, "cp949")
      [] encoding = "euc-kr" -> Dbcs(b, "euc-kr")
      [] OTHER -> Latin1(b)

encodings == <<"utf-8", "utf-8-sig", "cp949", "euc-kr", "latin-1">>

\* the loop without its break: the last encoding that decodes wins
RECURSIVE DecodeNoBreak(_, _)
DecodeNoBreak(b, k) ==
    IF k < 1 THEN NotDecoded
    ELSE IF Codec(encodings[k], b).ok
    THEN [encoding |-> encodings[k], content |-> Codec(encodings[k], b).text]
    ELSE DecodeNoBreak(b, k - 1)

DecodeLast(b) == DecodeNoBreak(b, Len(encodings))

\* for encoding in encodings: try ... break / except: continue, from the
\* k-th encoding on; used_encoding stays None when none decodes
RECURSIVE DecodeFrom(_, _)
DecodeFrom(b, k) ==
    IF k > Len(encodings) THEN NotDecoded
    ELSE IF Codec(encodings[k], b).ok
    THEN [encoding |-> encodings[k], content |-> Codec(encodings[k], b).text]
    ELSE DecodeFrom(b, k + 1)

\* the decode step of lines 310-319
Decode(b) == DecodeFrom(b, 1)

InitDecode ==
    /\ content_bytes \in BoundedSeq(ByteAlphabet, MaxBytes)
    /\ decoded = NotDecoded /\ text = <<>> /\ commands = <<>>
    /\ file_path = <<>> /\ username = <<>> /\ ppc = "ready"
    /\ WalkIdle
    /\ RunIdle

DecodeStep ==
    /\ ppc = "ready"
    /\ decoded' = Decode(content_bytes)
    /\ ppc' = "done"
    /\ UNCHANGED <<content_bytes, text, commands, file_path, username>>
    /\ UNCHANGED <<walkVars, runVars>>

NextDecode == DecodeStep

SpecDecode == InitDecode /\ [][NextDecode]_vars

(***************************************************************************)
(* The command list of a decoded text.                                     *)
(***************************************************************************)
\* the line boundaries of str.splitlines()
LineBreaks == {10, 11, 12, 13, 28, 29, 30, 133, 8232, 8233}

\* the characters str.strip() removes
WhiteSpace ==
    {9, 10, 11, 12, 13, 28, 29, 30, 31, 32, 133, 160, 5760, 8232, 8233, 8239, 8287, 12288}
    \cup (8192..8202)

\* content.splitlines(): a line ends at a boundary, CR LF is one boundary,
\* and a text that ends with a boundary has no empty last line
RECURSIVE splitlines(_)
splitlines(s) ==
    IF s = <<>> THEN <<>>
    ELSE LET B == {i \in DOMAIN s : s[i] \in LineBreaks} IN
         IF B = {} THEN <<s>>
         ELSE LET eol == CHOOSE i \in B : \A j \in B : i <= j
                  next == IF s[eol] = 13 /\ eol < Len(s) /\ s[eol + 1] = 10
                          THEN eol + 2 ELSE eol + 1
              IN <<SubSeq(s, 1, eol - 1)>> \o splitlines(SubSeq(s, next, Len(s)))

\* line.strip()
strip(line) ==
    LET K == {i \in DOMAIN line : line[i] \notin WhiteSpace} IN
    IF K = {} THEN <<>>
    ELSE SubSeq(line, CHOOSE i \in K : \A j \in K : i <= j,
                      CHOOSE i \in K : \A j \in K : i >= j)

\* numbering the records among the non-empty lines only
RECURSIVE CountedCommands(_, _)
CountedCommands(lines, line_num) ==
    IF lines = <<>> THEN <<>>
    ELSE IF strip(Head(lines)) # <<>>
    THEN <<[line_number |-> line_num, command |-> strip(Head(lines))]>>
         \o CountedCommands(Tail(lines), line_num + 1)
    ELSE CountedCommands(Tail(lines), line_num)

\* for line_num, line in enumerate(lines, start=line_num): the records of
\* the lines that are non-empty once stripped
RECURSIVE CommandsFrom(_, _)
CommandsFrom(lines, line_num) ==
    IF lines = <<>> THEN <<>>
    ELSE IF strip(Head(lines)) # <<>>
    THEN <<[line_number |-> line_num, command |-> strip(Head(lines))]>>
         \o CommandsFrom(Tail(lines), line_num + 1)
    ELSE CommandsFrom(Tail(lines), line_num + 1)

\* lines 309 and 321-329: commands = [], filled when content is not empty
ParseCommands(content) ==
    IF content # <<>> THEN CommandsFrom(splitlines(content), 1) ELSE <<>>

\* "a", space, LF, CR and form feed
TextAlphabet == {97, 32, 10, 13, 12}

InitLines ==
    /\ text \in BoundedSeq(TextAlphabet, MaxTextLen)
    /\ commands = <<>> /\ content_bytes = <<>> /\ decoded = NotDecoded
    /\ file_path = <<>> /\ username = <<>> /\ ppc = "ready"
    /\ WalkIdle
    /\ RunIdle

ParseStep ==
    /\ ppc = "ready"
    /\ commands' = ParseCommands(text)
    /\ ppc' = "done"
    /\ UNCHANGED <<content_bytes, decoded, text, file_path, username>>
    /\ UNCHANGED <<walkVars, runVars>>

NextLines == ParseStep

SpecLines == InitLines /\ [][NextLines]_vars

(***************************************************************************)
(* get_username_from_path.                                                 *)
(***************************************************************************)
\* file_path.split('/')
RECURSIVE split(_)
split(s) ==
    LET S == {i \in DOMAIN s : s[i] = "/"} IN
    IF S = {} THEN <<s>>
    ELSE LET k == CHOOSE i \in S : \A j \in S : i <= j IN
         <<SubSeq(s, 1, k - 1)>> \o split(SubSeq(s, k + 1, Len(s)))

\* comparing the segment itself, not its lower-cased form
RECURSIVE UsernameCaseSensitive(_, _)
UsernameCaseSensitive(path_parts, i) ==
    IF i > Len(path_parts) THEN <<"unknown">>
    ELSE IF path_parts[i] = <<"users">> /\ i + 1 <= Len(path_parts)
    THEN path_parts[i + 1]
    ELSE UsernameCaseSensitive(path_parts, i + 1)

\* the for loop of lines 239-242, from the i-th segment on (i counts from 1)
RECURSIVE UsernameFrom(_, _)
UsernameFrom(path_parts, i) ==
    IF i > Len(path_parts) THEN <<"unknown">>
    ELSE IF Lower(path_parts[i]) = <<"users">> /\ i + 1 <= Len(path_parts)
    THEN path_parts[i + 1]
    ELSE UsernameFrom(path_parts, i + 1)

get_username_from_path(fp) == UsernameFrom(split(fp), 1)

PathAlphabet == {"/", "Users", "users", "alice", "Documents and Settings"}

InitUser ==
    /\ file_path \in BoundedSeq(PathAlphabet, MaxPathLen)
    /\ username = <<>> /\ content_bytes = <<>> /\ decoded = NotDecoded
    /\ text = <<>> /\ commands = <<>> /\ ppc = "ready"
    /\ WalkIdle
    /\ RunIdle

UsernameStep ==
    /\ ppc = "ready"
    /\ username' = get_username_from_path(file_path)
    /\ ppc' = "done"
    /\ UNCHANGED <<content_bytes, decoded, text, commands, file_path>>
    /\ UNCHANGED <<walkVars, runVars>>

NextUser == UsernameStep

SpecUser == InitUser /\ [][NextUser]_vars

(***************************************************************************)
(* extract_from_image.  What the collaborators answer (an import, the      *)
(* image, the volume system, a filesystem, a read, a write) is drawn when  *)
(* the call is made.                                                       *)
(***************************************************************************)
\* the partition tables of at most MaxParts entries
PartitionLists ==
    UNION {[1..n -> {"ALLOC", "UNALLOC"}] : n \in 0..MaxParts}

\* list(volume): the k-th entry starts at its own sector and has its own
\* description
PartitionsOf(flagsList) ==
    [k \in DOMAIN flagsList |->
        [flags |-> flagsList[k], start |-> 2048 * k, desc |-> <<"part", k>>]]

\* if partitions: neither None nor an empty list
Truthy(parts) == parts # <<>> /\ parts[1] # <<>>

\* partitions.index(part), counted from 0
IndexOf(list, part) ==
    (CHOOSE k \in DOMAIN list : list[k] = part /\ \A j \in 1..(k - 1) : list[j] # part) - 1

\* the failures drawn inside a filesystem searched by a run
RunFailures(v) ==
    { {} } \cup { {f} : f \in {g \in FailurePoints(v) :
                      \/ g = [what |-> "open_dir", path |-> Root]
                      \/ g = [what |-> "entry", path |-> GoldenPathOf(v)]} }

Failure(msg) == [success |-> FALSE, error |-> msg]

SequenceAmongExtracted(i, extracted) == Len(extracted) + 1

\* the number in output_filename, for the match of enumerate index i
OutputSequence(i, extracted) == i + 1

\* f"ConsoleHost_history_{username}_{i+1}.txt"
OutputFilename(name, sequence) ==
    [prefix |-> "ConsoleHost_history_", username |-> name, sequence |-> sequence,
     suffix |-> ".txt"]

\* result.get('partition', 'N/A')
PartitionOf(result) ==
    IF "partition" \in DOMAIN result THEN result.partition ELSE <<"N/A">>

\* lines 280-282: the results of one partition, tagged
Tagged(found, part_desc, part_num) ==
    [k \in DOMAIN found |->
        [path |-> found[k].path, size |-> found[k].size, entry |-> found[k].entry,
         partition |-> part_desc, partition_num |-> part_num]]

InitRun ==
    /\ rpc = "start"
    /\ partition \in {<<>>} \cup {<<k>> : k \in 0..(MaxParts - 1)}
    /\ partitions = <<>> /\ partIdx = 0
    /\ all_results = <<>> /\ extracted_files = <<>> /\ idx = 0 /\ ret = <<>>
    /\ searchLog = <<>> /\ readLog = <<>> /\ written = <<>>
    /\ WalkIdle
    /\ PureIdle

\* import pytsk3 / import pyewf raises ImportError
ImportFails ==
    /\ rpc = "start"
    /\ \E lib \in {"pytsk3", "pyewf"} : ret' = <<Failure(<<lib, "is not installed">>)>>
    /\ rpc' = "returned"
    /\ UNCHANGED <<partitions, partition, partIdx, all_results, extracted_files, idx,
                   searchLog, readLog, written>>
    /\ UNCHANGED <<walkVars, pureVars>>

\* not Path(image_path).exists()
ImageNotFound ==
    /\ rpc = "start"
    /\ ret' = <<Failure(<<"Image file not found">>)>>
    /\ rpc' = "returned"
    /\ UNCHANGED <<partitions, partition, partIdx, all_results, extracted_files, idx,
                   searchLog, readLog, written>>
    /\ UNCHANGED <<walkVars, pureVars>>

\* open_image(image_path) raises
OpenImageFails ==
    /\ rpc = "start"
    /\ ret' = <<Failure(<<"Failed to open image">>)>>
    /\ rpc' = "returned"
    /\ UNCHANGED <<partitions, partition, partIdx, all_results, extracted_files, idx,
                   searchLog, readLog, written>>
    /\ UNCHANGED <<walkVars, pureVars>>

\* img = open_image(image_path)
OpenImage ==
    /\ rpc = "start"
    /\ rpc' = "volume"
    /\ UNCHANGED <<partitions, partition, partIdx, all_results, extracted_files, idx,
                   ret, searchLog, readLog, written>>
    /\ UNCHANGED <<walkVars, pureVars>>

\* pytsk3.Volume_Info(img) raises: partitions = None
VolumeFails ==
    /\ rpc = "volume"
    /\ partitions' = <<>>
    /\ rpc' = "mkdir"
    /\ UNCHANGED <<partition, partIdx, all_results, extracted_files, idx, ret,
                   searchLog, readLog, written>>
    /\ UNCHANGED <<walkVars, pureVars>>

\* partitions = list(volume)
VolumeParsed ==
    /\ rpc = "volume"
    /\ \E fl \in PartitionLists : partitions' = <<PartitionsOf(fl)>>
    /\ rpc' = "mkdir"
    /\ UNCHANGED <<partition, partIdx, all_results, extracted_files, idx, ret,
                   searchLog, readLog, written>>
    /\ UNCHANGED <<walkVars, pureVars>>

\* Path(output_dir).mkdir(parents=True, exist_ok=True) raises: nothing
\* catches it
MkdirRaises ==
    /\ rpc = "mkdir"
    /\ ret' = <<[raised |-> "OSError", at |-> "mkdir"]>>
    /\ rpc' = "raised"
    /\ UNCHANGED <<partitions, partition, partIdx, all_results, extracted_files, idx,
                   searchLog, readLog, written>>
    /\ UNCHANGED <<walkVars, pureVars>>

Mkdir ==
    /\ rpc = "mkdir"
    /\ rpc' = IF Truthy(partitions) THEN "parts" ELSE "whole"
    /\ partIdx' = 1
    /\ UNCHANGED <<partitions, partition, all_results, extracted_files, idx, ret,
                   searchLog, readLog, written>>
    /\ UNCHANGED <<walkVars, pureVars>>

Part == partitions[1][partIdx]

PartNum == IndexOf(partitions[1], Part)

\* the two continue statements of lines 265-270
Searched(part, part_num) ==
    /\ part.flags = "ALLOC"
    /\ ~(partition # <<>> /\ part_num # partition[1])

\* an unallocated partition, or not the one asked for: continue
PartSkipped ==
    /\ rpc = "parts" /\ partIdx <= Len(partitions[1])
    /\ ~Searched(Part, PartNum)
    /\ partIdx' = partIdx + 1
    /\ UNCHANGED <<rpc, partitions, partition, all_results, extracted_files, idx, ret,
                   searchLog, readLog, written>>
    /\ UNCHANGED <<walkVars, pureVars>>

\* pytsk3.FS_Info(img, offset=part.start * 512) raises: except Exception:
\* continue (lines 285-286)
PartFsFails ==
    /\ rpc = "parts" /\ partIdx <= Len(partitions[1])
    /\ Searched(Part, PartNum)
    /\ partIdx' = partIdx + 1
    /\ searchLog' = Append(searchLog, [part_num |-> PartNum, ok |-> FALSE, found |-> <<>>])
    /\ UNCHANGED <<rpc, partitions, partition, all_results, extracted_files, idx, ret,
                   readLog, written>>
    /\ UNCHANGED <<walkVars, pureVars>>

\* fs = pytsk3.FS_Info(...); find_consolehost_files(fs) is called
StartSearch(next) ==
    /\ \E v \in Variants : \E F \in RunFailures(v) :
          /\ fsVariant' = v
          /\ failDirs' = FailedPaths(F, "open_dir")
          /\ failEntries' = FailedPaths(F, "entry")
    /\ wpc' = "call" /\ callPath' = Root /\ stack' = <<>> /\ results' = <<>>
    /\ opened' = {}
    /\ rpc' = next
    /\ UNCHANGED <<partitions, partition, partIdx, all_results, extracted_files, idx,
                   ret, searchLog, readLog, written>>
    /\ UNCHANGED pureVars

PartFsOpen ==
    /\ rpc = "parts" /\ partIdx <= Len(partitions[1])
    /\ Searched(Part, PartNum)
    /\ StartSearch("search")

\* the search returned: tag the results and extend all_results
PartCollect ==
    /\ rpc = "search" /\ wpc = "done"
    /\ all_results' = all_results \o Tagged(results, Part.desc, PartNum)
    /\ searchLog' = Append(searchLog, [part_num |-> PartNum, ok |-> TRUE, found |-> results])
    /\ partIdx' = partIdx + 1
    /\ rpc' = "parts"
    /\ wpc' = "idle"
    /\ UNCHANGED <<partitions, partition, extracted_files, idx, ret, readLog, written>>
    /\ UNCHANGED <<fsVariant, failDirs, failEntries, callPath, stack, results, opened>>
    /\ UNCHANGED pureVars

\* the for loop over partitions is over
PartsDone ==
    /\ rpc = "parts" /\ partIdx > Len(partitions[1])
    /\ rpc' = "extract"
    /\ UNCHANGED <<partitions, partition, partIdx, all_results, extracted_files, idx,
                   ret, searchLog, readLog, written>>
    /\ UNCHANGED <<walkVars, pureVars>>

\* no partitions: pytsk3.FS_Info(img) raises, the run fails
WholeFsFails ==
    /\ rpc = "whole"
    /\ ret' = <<Failure(<<"Could not process filesystem">>)>>
    /\ rpc' = "returned"
    /\ searchLog' = Append(searchLog, [part_num |-> -1, ok |-> FALSE, found |-> <<>>])
    /\ UNCHANGED <<partitions, partition, partIdx, all_results, extracted_files, idx,
                   readLog, written>>
    /\ UNCHANGED <<walkVars, pureVars>>

WholeFsOpen ==
    /\ rpc = "whole"
    /\ StartSearch("search_whole")

WholeCollect ==
    /\ rpc = "search_whole" /\ wpc = "done"
    /\ all_results' = all_results \o results
    /\ searchLog' = Append(searchLog, [part_num |-> -1, ok |-> TRUE, found |-> results])
    /\ rpc' = "extract"
    /\ wpc' = "idle"
    /\ UNCHANGED <<partitions, partition, partIdx, extracted_files, idx, ret, readLog, written>>
    /\ UNCHANGED <<fsVariant, failDirs, failEntries, callPath, stack, results, opened>>
    /\ UNCHANGED pureVars

Result == all_results[idx + 1]

\* extract_file_content(entry) returned None: read_random raised
ReadFails ==
    /\ rpc = "extract" /\ idx < Len(all_results)
    /\ readLog' = Append(readLog, "failed")
    /\ idx' = idx + 1
    /\ UNCHANGED <<rpc, partitions, partition, partIdx, all_results, extracted_files,
                   ret, searchLog, written>>
    /\ UNCHANGED <<walkVars, pureVars>>

\* the read gave no bytes: if content_bytes is false for b''
ReadEmpty ==
    /\ rpc = "extract" /\ idx < Len(all_results)
    /\ Result.entry.content = <<>>
    /\ readLog' = Append(readLog, "empty")
    /\ idx' = idx + 1
    /\ UNCHANGED <<rpc, partitions, partition, partIdx, all_results, extracted_files,
                   ret, searchLog, written>>
    /\ UNCHANGED <<walkVars, pureVars>>

\* open(output_path, 'wb') or f.write raises: nothing catches it
WriteRaises ==
    /\ rpc = "extract" /\ idx < Len(all_results)
    /\ Result.entry.content # <<>>
    /\ readLog' = Append(readLog, "read")
    /\ ret' = <<[raised |-> "OSError", at |-> "write"]>>
    /\ rpc' = "raised"
    /\ UNCHANGED <<partitions, partition, partIdx, all_results, extracted_files, idx,
                   searchLog, written>>
    /\ UNCHANGED <<walkVars, pureVars>>

\* the file is written, decoded and parsed; its record is appended
ExtractOne ==
    /\ rpc = "extract" /\ idx < Len(all_results)
    /\ Result.entry.content # <<>>
    /\ LET name == get_username_from_path(Result.path)
           output_filename == OutputFilename(name, OutputSequence(idx, extracted_files))
           data == Result.entry.content
           dec == Decode(data)
           cmds == ParseCommands(dec.content)
       IN  /\ written' = Append(written, [name |-> output_filename, data |-> data])
           /\ extracted_files' = Append(extracted_files,
                  [username |-> name,
                   source_path |-> Result.path,
                   output_path |-> output_filename,
                   file_size |-> Result.size,
                   partition |-> PartitionOf(Result),
                   encoding |-> dec.encoding,
                   command_count |-> Len(cmds),
                   commands |-> cmds])
    /\ readLog' = Append(readLog, "read")
    /\ idx' = idx + 1
    /\ UNCHANGED <<rpc, partitions, partition, partIdx, all_results, ret, searchLog>>
    /\ UNCHANGED <<walkVars, pureVars>>

\* the summary of lines 342-349
ReturnSummary ==
    /\ rpc = "extract" /\ idx = Len(all_results)
    /\ ret' = <<[success |-> TRUE,
                 files_found |-> Len(all_results),
                 files_extracted |-> Len(extracted_files),
                 extracted_files |-> extracted_files]>>
    /\ rpc' = "returned"
    /\ UNCHANGED <<partitions, partition, partIdx, all_results, extracted_files, idx,
                   searchLog, readLog, written>>
    /\ UNCHANGED <<walkVars, pureVars>>

NextRun ==
    \/ ImportFails
    \/ ImageNotFound
    \/ OpenImageFails
    \/ OpenImage
    \/ VolumeFails
    \/ VolumeParsed
    \/ MkdirRaises
    \/ Mkdir
    \/ PartSkipped
    \/ PartFsFails
    \/ PartFsOpen
    \/ PartCollect
    \/ PartsDone
    \/ WholeFsFails
    \/ WholeFsOpen
    \/ WholeCollect
    \/ ReadFails
    \/ ReadEmpty
    \/ WriteRaises
    \/ ExtractOne
    \/ ReturnSummary
    \/ OpenDirFails
    \/ OpenDir
    \/ EntryRaises
    \/ EntryDot
    \/ EntryRegular
    \/ EntryDirectory
    \/ EntryOther
    \/ ReturnResults

SpecRun == InitRun /\ [][NextRun]_vars

(***************************************************************************)
(* Properties of the walk.                                                 *)
(***************************************************************************)
LastSlash(p) == CHOOSE i \in DOMAIN p : p[i] = "/" /\ \A j \in (i + 1)..Len(p) : p[j] # "/"

ParentOf(p) == IF LastSlash(p) = 1 THEN Root ELSE SubSeq(p, 1, LastSlash(p) - 1)

BaseName(p) == SubSeq(p, LastSlash(p) + 1, Len(p))

\* the directories above p, the start path included
Ancestors(p) ==
    {Root} \cup {SubSeq(p, 1, i - 1) : i \in {j \in DOMAIN p : j > 1 /\ p[j] = "/"}}

\* the four conditions under which a directory may be opened
Admitted(p) ==
    \/ Lower(BaseName(p)) \in { <<"users">>, <<"documents and settings">> }
    \/ Lower(BaseName(p)) \in { <<"appdata">>, <<"roaming">>, <<"microsoft">>,
                                 <<"windows">>, <<"powershell">>, <<"psreadline">> }
    \/ \E i \in DOMAIN p : LowerTok(p[i]) = "appdata"
    \/ Lower(ParentOf(p)) \in { <<"/", "users">>, <<"/", "documents and settings">> }

HasAllParts(p) ==
    \A part \in {"appdata", "roaming", "microsoft", "windows", "powershell", "psreadline"} :
        \E i \in DOMAIN p : LowerTok(p[i]) = part

\* the top-level directory a path of two or more segments lies in
TopDir(p) == SubSeq(p, 1, 2)

\* C1: a directory other than the start path is opened only if its parent was
\* opened and one of the four pruning conditions holds for it; so every
\* reported file has all six required components in its lower-cased path and
\* none lies in a top-level directory that fails the conditions.
C1_Pruning ==
    /\ \A p \in opened \ {Root} : ParentOf(p) \in opened /\ Admitted(p)
    /\ \A i \in DOMAIN results :
          /\ HasAllParts(results[i].path)
          /\ LowerTok(BaseName(results[i].path)[1]) = "consolehost_history.txt"
          /\ Admitted(TopDir(results[i].path))

C1_Witness ==
    /\ wpc = "done" /\ fsVariant = 1 /\ failDirs = {} /\ failEntries = {}
    /\ <<"/", "Other">> \in DirPaths(fsVariant) \ opened
    /\ <<"/", "Users", "/", "alice", "/", "Desktop">> \in DirPaths(fsVariant) \ opened
    /\ <<"/", "Users", "/", "alice">> \in opened
    /\ Len(results) = 2

\* an entry is outside the failing subtrees when no directory above it fails
\* to open and neither it nor a directory entry above it fails inspection
Unaffected(p) ==
    /\ p \notin failEntries
    /\ \A a \in Ancestors(p) : a \notin failDirs /\ a \notin failEntries

\* the matches of the tree: target files all of whose directories the
\* pruning policy admits
Matches(v) ==
    {NodePath(n) : n \in {m \in Range(Tree(v)) :
        /\ m.kind = "reg"
        /\ IsTarget(m.name, NodePath(m))
        /\ \A a \in Ancestors(NodePath(m)) \ {Root} :
              a \in DirPaths(v) /\ Admitted(a) /\ BaseName(a) \notin {<<".">>, <<"..">>}}}

ResultPaths == {results[i].path : i \in DOMAIN results}

\* C2: with any set of failing directories and entries the walk never stops
\* short of its end (a pending call opens or fails, a running loop has its
\* call on the stack) and it returns exactly the matches outside the failing
\* subtrees, each once.
C2_FailureIsolation ==
    /\ wpc \in {"call", "iter", "done"}
    /\ wpc = "iter" => stack # <<>>
    /\ wpc = "done" =>
          /\ ResultPaths = {p \in Matches(fsVariant) : Unaffected(p)}
          /\ Len(results) = Cardinality(ResultPaths)

C2_Witness ==
    /\ wpc = "done" /\ fsVariant = 1
    /\ failDirs = { <<"/", "Users", "/", "eve", "/", "AppData">> }
    /\ failEntries = { <<"/", "Windows">> }
    /\ Len(results) = 1
    /\ results[1].path = NodePath(GoldenFile(1))

\* C10: when the history file lies at its default location under a user
\* directory, in any letter case, and every directory on its path can be
\* opened and inspected, the walk reports it exactly once.
C10_Completeness ==
    (/\ wpc = "done"
     /\ fsVariant \in 1..3
     /\ Unaffected(GoldenPathOf(fsVariant)))
    => Cardinality({i \in DOMAIN results : results[i].path = GoldenPathOf(fsVariant)}) = 1

C10_Witness ==
    /\ wpc = "done" /\ fsVariant = 2
    /\ failEntries = { <<"/", "$Orphan">> }
    /\ Len(results) = 1
    /\ results[1].path = <<"/", "DOCUMENTS AND SETTINGS", "/", "ALICE", "/", "APPDATA", "/",
                            "ROAMING", "/", "MICROSOFT", "/", "WINDOWS", "/", "POWERSHELL",
                            "/", "PSREADLINE", "/", "CONSOLEHOST_HISTORY.TXT">>

(***************************************************************************)
(* Properties of the pure functions.                                       *)
(***************************************************************************)
Accepts(encoding, b) == Codec(encoding, b).ok

\* C7: the decode step never fails and reports the first encoding of the
\* list that accepts the bytes; bytes that only the single-byte fallback
\* accepts are reported as latin-1, which accepts every byte string.
C7_FirstAcceptingEncoding ==
    ppc = "done" =>
        /\ \E k \in DOMAIN encodings :
              /\ decoded.encoding = encodings[k]
              /\ Accepts(encodings[k], content_bytes)
              /\ \A j \in 1..(k - 1) : ~Accepts(encodings[j], content_bytes)
        /\ Accepts("latin-1", content_bytes)
        /\ (\A e \in {"utf-8", "utf-8-sig", "cp949", "euc-kr"} : ~Accepts(e, content_bytes))
              => decoded = [encoding |-> "latin-1", content |-> content_bytes]
        /\ encodings = <<"utf-8", "utf-8-sig", "cp949", "euc-kr", "latin-1">>

C7_Witness ==
    /\ ppc = "done"
    /\ content_bytes = <<65, 255>>
    /\ ~Accepts("utf-8", content_bytes)
    /\ ~Accepts("cp949", content_bytes)
    /\ decoded.encoding = "latin-1"

\* the text between two boundaries, rebuilt from the records' point of view:
\* no line holds a boundary
NoBreakIn(line) == \A i \in DOMAIN line : line[i] \notin {10, 11, 12, 13, 28, 29, 30, 133, 8232, 8233}

Trimmed(line) ==
    /\ line # <<>>
    /\ line[1] \notin WhiteSpace
    /\ line[Len(line)] \notin WhiteSpace

\* C8: the command list holds one record per line that is non-empty after
\* trimming, in order, with the trimmed text and the line's 1-based position
\* among all lines; "a", "", "a" gives the records 1 and 3.
C8_CommandList ==
    ppc = "done" =>
        LET lines == splitlines(text)
            kept == {i \in DOMAIN lines : \E j \in DOMAIN lines[i] : lines[i][j] \notin WhiteSpace}
        IN  /\ \A i \in DOMAIN lines : NoBreakIn(lines[i])
            /\ {commands[k].line_number : k \in DOMAIN commands} = kept
            /\ Len(commands) = Cardinality(kept)
            /\ \A k \in DOMAIN commands :
                  /\ k > 1 => commands[k - 1].line_number < commands[k].line_number
                  /\ Trimmed(commands[k].command)
                  /\ Contains(lines[commands[k].line_number], commands[k].command)
                  /\ commands[k].command = strip(lines[commands[k].line_number])
            /\ text = <<97, 10, 10, 97>> =>
                  commands = << [line_number |-> 1, command |-> <<97>>],
                                [line_number |-> 3, command |-> <<97>>] >>
            /\ text = <<97, 13, 10, 97>> =>
                  commands = << [line_number |-> 1, command |-> <<97>>],
                                [line_number |-> 2, command |-> <<97>>] >>

C8_Witness ==
    /\ ppc = "done"
    /\ text = <<32, 10, 97, 32>>
    /\ commands = << [line_number |-> 2, command |-> <<97>>] >>

RECURSIVE Join(_)
Join(parts) ==
    IF Len(parts) = 1 THEN parts[1]
    ELSE parts[1] \o <<"/">> \o Join(Tail(parts))

\* C9: the username is the segment after the first segment that equals
\* 'users' in any letter case and has a following segment, and "unknown"
\* when there is none, as for a path under 'Documents and Settings'.
C9_Username ==
    ppc = "done" =>
        LET parts == split(file_path)
            U == {i \in 1..(Len(parts) - 1) : parts[i] \in { <<"users">>, <<"Users">>, <<"USERS">> }}
        IN  /\ Join(parts) = file_path
            /\ \A i \in DOMAIN parts : \A j \in DOMAIN parts[i] : parts[i][j] # "/"
            /\ U = {} => username = <<"unknown">>
            /\ U # {} => username = parts[(CHOOSE i \in U : \A j \in U : i <= j) + 1]
            /\ file_path = <<"/", "Users", "/", "alice", "/">> => username = <<"alice">>
            /\ file_path = <<"/", "Documents and Settings", "/", "alice">>
                  => username = <<"unknown">>

C9_Witness ==
    /\ ppc = "done"
    /\ file_path = <<"users", "/", "Users", "/", "alice">>
    /\ username = <<"Users">>

(***************************************************************************)
(* Properties of extract_from_image.                                       *)
(***************************************************************************)
Terminated == rpc \in {"returned", "raised"}

SomeFsFailed == \E k \in DOMAIN searchLog : ~searchLog[k].ok

\* what the searches returned, in the order they were made, tagged as the
\* partition loop tags them
RECURSIVE FoundInLog(_)
FoundInLog(log) ==
    IF log = <<>> THEN <<>>
    ELSE LET e == log[Len(log)]
             before == FoundInLog(SubSeq(log, 1, Len(log) - 1))
         IN  IF e.part_num < 0 THEN before \o e.found
             ELSE before \o [k \in DOMAIN e.found |->
                     [path |-> e.found[k].path, size |-> e.found[k].size,
                      entry |-> e.found[k].entry,
                      partition |-> partitions[1][e.part_num + 1].desc,
                      partition_num |-> e.part_num]]

\* C3: with partitions, a filesystem that fails to open costs only its own
\* partition: the run returns success=true with the matches of the other
\* searched partitions in partition order; without partitions, the failure
\* ends the run with success=false and an error message.
C3_PartitionIsolation ==
    (Terminated /\ SomeFsFailed) =>
        IF Truthy(partitions)
        THEN /\ rpc = "returned"
             /\ ret[1].success
             /\ all_results = FoundInLog(searchLog)
             /\ ret[1].files_found = Len(FoundInLog(searchLog))
        ELSE /\ rpc = "returned"
             /\ ~ret[1].success
             /\ "error" \in DOMAIN ret[1]

\* C4: every call returns a structured result and never raises, whichever
\* collaborator step fails.
C4_NeverRaises ==
    /\ rpc # "raised"
    /\ rpc = "returned" =>
          /\ "success" \in DOMAIN ret[1]
          /\ ~ret[1].success => "error" \in DOMAIN ret[1]

\* the original C5: the k-th record of extracted_files carries the sequence
\* number k.
C5_SequenceAmongExtracted ==
    \A k \in DOMAIN extracted_files : extracted_files[k].output_path.sequence = k

\* C5, amended: the sequence number of a record is the 1-based position of
\* its match among all matches of the run, that is k plus the number of
\* earlier matches that left no record.
C5_SequenceAmongMatches ==
    \A k \in DOMAIN extracted_files :
        LET rec == extracted_files[k]
            sq == rec.output_path.sequence
        IN  /\ sq \in DOMAIN all_results
            /\ sq \in DOMAIN readLog
            /\ readLog[sq] = "read"
            /\ sq = k + Cardinality({i \in 1..(sq - 1) : readLog[i] # "read"})
            /\ rec.source_path = all_results[sq].path
            /\ rec.output_path.username = rec.username
            /\ written[k].name = rec.output_path
            /\ written[k].data = all_results[sq].entry.content

C5_Witness ==
    /\ rpc = "returned"
    /\ readLog = <<"failed", "read">>
    /\ Len(extracted_files) = 1
    /\ extracted_files[1].output_path.sequence = 2
    /\ extracted_files[1].username = <<"alice">>

\* the paths of the matches whose content read did not fail, in order
RECURSIVE ReadablePaths(_)
ReadablePaths(n) ==
    IF n = 0 THEN <<>>
    ELSE IF readLog[n] # "failed"
    THEN Append(ReadablePaths(n - 1), all_results[n].path)
    ELSE ReadablePaths(n - 1)

\* C6: in a successful run files_found counts the matches of all searched
\* partitions, and extracted_files holds one record, in discovery order, for
\* each match whose content read did not fail, whatever its length; the gap
\* between the two counts is the number of failed reads.
C6_FoundAndExtracted ==
    (rpc = "returned" /\ ret[1].success) =>
        /\ ret[1].files_found = Len(FoundInLog(searchLog))
        /\ [k \in DOMAIN extracted_files |-> extracted_files[k].source_path]
              = ReadablePaths(Len(all_results))
        /\ ret[1].files_extracted <= ret[1].files_found
        /\ ret[1].files_found - ret[1].files_extracted
              = Cardinality({i \in DOMAIN readLog : readLog[i] = "failed"})

====
